---- MODULE Spec2Model ----
(***************************************************************************)
(* Room migration generator: the diff engine (compareEntities,             *)
(* compareTableStructure, compareIndices), the migration assembler         *)
(* (generateMigration) and the sequential planner (generateAllMigrations,  *)
(* generateDatabaseConfig) of room-migration-generator.ts.                 *)
(*                                                                         *)
(* Text is modelled as a sequence of symbols: every fixed fragment of a    *)
(* template literal is one symbol, and a name or literal taken from a      *)
(* snapshot is a sequence of one or more symbols, so that concatenation    *)
(* is \o and String.includes is a search for a contiguous subsequence.     *)
(* An optional property (fields, indices, defaultValue, sql,               *)
(* autoMigrationAnnotation) that is undefined is a key missing from the    *)
(* record.  The arrow and the accented letters of the descriptions are     *)
(* written in ASCII.                                                       *)
(*                                                                         *)
(* The definitions follow the TypeScript source.  room-migration-          *)
(* generator.js is an ES5 build of it whose loops walk the Maps by index   *)
(* and length, so they visit no entry; that build is not modelled.         *)
(***************************************************************************)
EXTENDS Integers, Sequences, FiniteSets, TLC

VARIABLES schemas, i, pc, migrationsData, migrations, summary, log,
          tableComparisons, config

vars == <<schemas, i, pc, migrationsData, migrations, summary, log,
          tableComparisons, config>>

-----------------------------------------------------------------------------
(* Strings, optional properties, Array and Map primitives                  *)

Str(x) == <<x>>

Has(r, k) == k \in DOMAIN r

Truthy(s) == Len(s) > 0

includes(s, sub) ==
    \E k \in 1..(Len(s) - Len(sub) + 1) : SubSeq(s, k, k + Len(sub) - 1) = sub

UpperSymbol(c) ==
    CASE c = "integer" -> "INTEGER"
      [] c = "text" -> "TEXT"
      [] c = "real" -> "REAL"
      [] c = "blob" -> "BLOB"
      [] OTHER -> c

toUpperCase(s) == [k \in 1..Len(s) |-> UpperSymbol(s[k])]

\* Array.prototype.findIndex over c.description.includes(sub); 0-based, -1 if none
findIndex(arr, sub) ==
    IF \E k \in 1..Len(arr) : includes(arr[k].description, sub)
    THEN (CHOOSE k \in 1..Len(arr) :
            /\ includes(arr[k].description, sub)
            /\ \A j \in 1..(k - 1) : ~includes(arr[j].description, sub)) - 1
    ELSE -1

\* Array.prototype.splice(start, 1); start is 0-based, negative counts from the end
splice(arr, start) ==
    LET len == Len(arr)
        from == IF start < 0
                THEN (IF len + start > 0 THEN len + start ELSE 0)
                ELSE (IF start < len THEN start ELSE len)
    IN  IF from < len
        THEN SubSeq(arr, 1, from) \o SubSeq(arr, from + 2, len)
        ELSE arr

\* A Map is the sequence of its entries <<key, value>> in insertion order
MapHas(m, k) == \E j \in 1..Len(m) : m[j][1] = k

MapGet(m, k) == m[CHOOSE j \in 1..Len(m) : m[j][1] = k][2]

MapSet(m, k, v) ==
    IF MapHas(m, k)
    THEN [j \in 1..Len(m) |-> IF m[j][1] = k THEN <<k, v>> ELSE m[j]]
    ELSE Append(m, <<k, v>>)

RECURSIVE NewMap(_)
NewMap(entries) ==
    IF Len(entries) = 0
    THEN <<>>
    ELSE LET last == entries[Len(entries)]
         IN  MapSet(NewMap(SubSeq(entries, 1, Len(entries) - 1)), last[1], last[2])

MapKeys(m) == [j \in 1..Len(m) |-> m[j][1]]

-----------------------------------------------------------------------------
(* Field Differ, Index Differ, Entity Differ                               *)

formatDefaultValue(value, affinity) ==
    LET a == toUpperCase(affinity)
    IN  IF a = Str("TEXT") THEN Str("'") \o value \o Str("'")
        ELSE IF a = Str("INTEGER") \/ a = Str("REAL") THEN value
        ELSE Str("'") \o value \o Str("'")

\* a nullable column without default value is not taken to have one
hasDefault_DeclaredOnly(field) == Has(field, "defaultValue")

hasDefault(field) == Has(field, "defaultValue") \/ ~field.notNull

defaultPart(field) ==
    IF Has(field, "defaultValue") /\ Truthy(field.defaultValue)
    THEN Str(" DEFAULT ") \o formatDefaultValue(field.defaultValue, field.affinity)
    ELSE <<>>

notNullPart(field) == IF field.notNull THEN Str(" NOT NULL") ELSE <<>>

AddColumnDescription(table, columnName, field) ==
    Str("Nueva columna: ") \o table \o Str(".") \o columnName \o Str(" (")
        \o field.affinity
        \o (IF field.notNull THEN Str(", NOT NULL") ELSE Str(", nullable"))
        \o Str(")")

AddColumnChange(table, columnName, field) ==
    IF hasDefault(field)
    THEN [type |-> "ADD_COLUMN",
          description |-> AddColumnDescription(table, columnName, field),
          sql |-> Str("ALTER TABLE ") \o table \o Str(" ADD COLUMN ") \o columnName
                    \o Str(" ") \o field.affinity \o notNullPart(field)
                    \o defaultPart(field),
          requiresManualMigration |-> FALSE]
    ELSE [type |-> "ADD_COLUMN",
          description |-> AddColumnDescription(table, columnName, field),
          requiresManualMigration |-> TRUE]

RemoveColumnDescription(table, columnName) ==
    Str("Columna eliminada: ") \o table \o Str(".") \o columnName

\* a removed column reported with a drop statement in place of the directive
RemoveColumnChange_DropStatement(table, columnName) ==
    [type |-> "REMOVE_COLUMN",
     description |-> RemoveColumnDescription(table, columnName),
     sql |-> Str("ALTER TABLE ") \o table \o Str(" DROP COLUMN ") \o columnName,
     requiresManualMigration |-> FALSE]

RemoveColumnChange(table, columnName) ==
    [type |-> "REMOVE_COLUMN",
     description |-> RemoveColumnDescription(table, columnName),
     requiresManualMigration |-> FALSE,
     autoMigrationAnnotation |->
        Str("@DeleteColumn(tableName = \"") \o table \o Str("\", columnName = \"")
            \o columnName \o Str("\")")]

\* a type change that does not require a manual migration
ChangeTypeChange_NotManual(table, columnName, oldField, newField) ==
    [type |-> "CHANGE_TYPE",
     description |-> Str("Cambio de tipo: ") \o table \o Str(".") \o columnName
                        \o Str(" (") \o oldField.affinity \o Str(" -> ")
                        \o newField.affinity \o Str(")"),
     requiresManualMigration |-> FALSE]

ChangeTypeChange(table, columnName, oldField, newField) ==
    [type |-> "CHANGE_TYPE",
     description |-> Str("Cambio de tipo: ") \o table \o Str(".") \o columnName
                        \o Str(" (") \o oldField.affinity \o Str(" -> ")
                        \o newField.affinity \o Str(")"),
     requiresManualMigration |-> TRUE]

RenameColumnChange(table, oldFieldName, newFieldName) ==
    [type |-> "RENAME_COLUMN",
     description |-> Str("Columna renombrada: ") \o table \o Str(".") \o oldFieldName
                        \o Str(" -> ") \o newFieldName,
     requiresManualMigration |-> FALSE,
     autoMigrationAnnotation |->
        Str("@RenameColumn(tableName = \"") \o table \o Str("\", fromColumnName = \"")
            \o oldFieldName \o Str("\", toColumnName = \"") \o newFieldName
            \o Str("\")")]

FieldMap(entity) ==
    NewMap([j \in 1..Len(entity.fields) |->
                <<entity.fields[j].columnName, entity.fields[j]>>])

\* the indices keyed by their create statement: a redefinition is a new key
IndexMap_ByCreateSql(entity) ==
    LET indices == IF Has(entity, "indices") THEN entity.indices ELSE <<>>
    IN  NewMap([j \in 1..Len(indices) |-> <<indices[j].createSql, indices[j]>>])

IndexMap(entity) ==
    LET indices == IF Has(entity, "indices") THEN entity.indices ELSE <<>>
    IN  NewMap([j \in 1..Len(indices) |-> <<indices[j].name, indices[j]>>])

\* an added index that also carries a directive
AddIndexChange_WithDirective(indexName, index) ==
    [type |-> "ADD_INDEX",
     description |-> Str("Nuevo indice: ") \o indexName,
     sql |-> index.createSql,
     requiresManualMigration |-> FALSE,
     autoMigrationAnnotation |-> Str("@AddIndex(") \o indexName \o Str(")")]

AddIndexChange(indexName, index) ==
    [type |-> "ADD_INDEX",
     description |-> Str("Nuevo indice: ") \o indexName,
     sql |-> index.createSql,
     requiresManualMigration |-> FALSE]

RemoveIndexChange(indexName) ==
    [type |-> "REMOVE_INDEX",
     description |-> Str("Indice eliminado: ") \o indexName,
     sql |-> Str("DROP INDEX ") \o indexName,
     requiresManualMigration |-> FALSE]

compareIndices(oldEntity, newEntity) ==
    LET oldIndices == IndexMap(oldEntity)
        newIndices == IndexMap(newEntity)
        IsNew(e) == ~MapHas(oldIndices, e[1])
        IsGone(e) == ~MapHas(newIndices, e[1])
        added == SelectSeq(newIndices, IsNew)
        removed == SelectSeq(oldIndices, IsGone)
    IN  [j \in 1..Len(added) |-> AddIndexChange(added[j][1], added[j][2])]
        \o [j \in 1..Len(removed) |-> RemoveIndexChange(removed[j][1])]

\* the three loops of compareTableStructure over the column maps
ColumnChanges(table, oldFields, newFields) ==
    LET IsNew(e) == ~MapHas(oldFields, e[1])
        IsGone(e) == ~MapHas(newFields, e[1])
        IsRetyped(e) == /\ MapHas(newFields, e[1])
                        /\ e[2].affinity # MapGet(newFields, e[1]).affinity
        added == SelectSeq(newFields, IsNew)
        removed == SelectSeq(oldFields, IsGone)
        retyped == SelectSeq(oldFields, IsRetyped)
    IN  [j \in 1..Len(added) |-> AddColumnChange(table, added[j][1], added[j][2])]
        \o [j \in 1..Len(removed) |-> RemoveColumnChange(table, removed[j][1])]
        \o [j \in 1..Len(retyped) |->
                ChangeTypeChange(table, retyped[j][1], retyped[j][2],
                                 MapGet(newFields, retyped[j][1]))]

removedFields(oldFields, newFields) ==
    LET IsGone(name) == ~MapHas(newFields, name)
    IN  SelectSeq(MapKeys(oldFields), IsGone)

addedFields(oldFields, newFields) ==
    LET IsNew(name) == ~MapHas(oldFields, name)
    IN  SelectSeq(MapKeys(newFields), IsNew)

\* the heuristic without the comparison of the affinities
IsProbableRename_AnyAffinity(oldFields, newFields) ==
    /\ Len(removedFields(oldFields, newFields)) = 1
    /\ Len(addedFields(oldFields, newFields)) = 1

\* the condition under which the rename heuristic rewrites the change list
IsProbableRename(oldFields, newFields) ==
    LET removed == removedFields(oldFields, newFields)
        added == addedFields(oldFields, newFields)
    IN  /\ Len(removed) = 1
        /\ Len(added) = 1
        /\ MapGet(oldFields, removed[1]).affinity = MapGet(newFields, added[1]).affinity

\* both positions are looked up before the first splice
ApplyRename_StalePosition(changes, table, oldFieldName, newFieldName) ==
    LET added == findIndex(changes,
                    Str("Nueva columna: ") \o table \o Str(".") \o newFieldName)
        removed == findIndex(changes,
                    Str("Columna eliminada: ") \o table \o Str(".") \o oldFieldName)
    IN  Append(splice(splice(changes, added), removed),
               RenameColumnChange(table, oldFieldName, newFieldName))

ApplyRename(changes, table, oldFieldName, newFieldName) ==
    LET afterAdd == splice(changes,
                        findIndex(changes,
                            Str("Nueva columna: ") \o table \o Str(".") \o newFieldName))
        afterRemove == splice(afterAdd,
                        findIndex(afterAdd,
                            Str("Columna eliminada: ") \o table \o Str(".") \o oldFieldName))
    IN  Append(afterRemove, RenameColumnChange(table, oldFieldName, newFieldName))

\* the Field Differ: compareTableStructure up to the call of compareIndices
compareFields(oldEntity, newEntity) ==
    LET table == oldEntity.tableName
        oldFields == FieldMap(oldEntity)
        newFields == FieldMap(newEntity)
        changes == ColumnChanges(table, oldFields, newFields)
    IN  IF IsProbableRename(oldFields, newFields)
        THEN ApplyRename(changes, table, removedFields(oldFields, newFields)[1],
                         addedFields(oldFields, newFields)[1])
        ELSE changes

\* oldEntity.fields.map / newEntity.fields.map on a missing fields list
compareTableStructureThrows(oldEntity, newEntity) ==
    ~Has(oldEntity, "fields") \/ ~Has(newEntity, "fields")

\* the index changes ahead of the column changes
compareTableStructure_IndicesFirst(tableName, oldEntity, newEntity) ==
    compareIndices(oldEntity, newEntity) \o compareFields(oldEntity, newEntity)

compareTableStructure(tableName, oldEntity, newEntity) ==
    compareFields(oldEntity, newEntity) \o compareIndices(oldEntity, newEntity)

TableMap(entities) ==
    NewMap([j \in 1..Len(entities) |-> <<entities[j].tableName, entities[j]>>])

TableAddedChange(tableName, entity) ==
    [type |-> "ADD_COLUMN",
     description |-> Str("Nueva tabla: ") \o tableName,
     sql |-> entity.createSql,
     requiresManualMigration |-> TRUE]

TableRemovedChange(tableName) ==
    [type |-> "REMOVE_COLUMN",
     description |-> Str("Tabla eliminada: ") \o tableName,
     sql |-> Str("DROP TABLE ") \o tableName,
     requiresManualMigration |-> FALSE,
     autoMigrationAnnotation |->
        Str("@DeleteTable(tableName = \"") \o tableName \o Str("\")")]

\* the comparison of a modified table is pushed whatever its changes
KeepComparison_Always(changes) == TRUE

\* whether a modified table's comparison is pushed
KeepComparison(changes) == Len(changes) > 0

compareEntitiesThrows(oldEntities, newEntities) ==
    LET oldTables == TableMap(oldEntities)
        newTables == TableMap(newEntities)
    IN  \E j \in 1..Len(oldTables) :
            /\ MapHas(newTables, oldTables[j][1])
            /\ compareTableStructureThrows(oldTables[j][2],
                                           MapGet(newTables, oldTables[j][1]))

compareEntities(oldEntities, newEntities) ==
    LET oldTables == TableMap(oldEntities)
        newTables == TableMap(newEntities)
        IsNew(e) == ~MapHas(oldTables, e[1])
        IsGone(e) == ~MapHas(newTables, e[1])
        IsShared(e) == MapHas(newTables, e[1])
        IsKept(c) == KeepComparison(c.changes)
        added == SelectSeq(newTables, IsNew)
        removed == SelectSeq(oldTables, IsGone)
        shared == SelectSeq(oldTables, IsShared)
        compared == [j \in 1..Len(shared) |->
                        [tableName |-> shared[j][1],
                         changes |-> compareTableStructure(shared[j][1], shared[j][2],
                                        MapGet(newTables, shared[j][1]))]]
    IN  [j \in 1..Len(added) |->
            [tableName |-> added[j][1],
             changes |-> <<TableAddedChange(added[j][1], added[j][2])>>]]
        \o [j \in 1..Len(removed) |->
            [tableName |-> removed[j][1],
             changes |-> <<TableRemovedChange(removed[j][1])>>]]
        \o SelectSeq(compared, IsKept)

-----------------------------------------------------------------------------
(* Migration Assembler                                                     *)

loadSchemaThrows(file) == file.status # "ok"

EmptyAccumulator ==
    [sqlStatements |-> <<>>,
     requiresManualMigration |-> FALSE,
     autoMigrationAnnotations |-> <<>>]

\* the flag takes the value of the last change
AccumulateManual_LastWins(acc, change) == change.requiresManualMigration

\* one pass of the inner loop body of generateMigration
AccumulateManual(acc, change) ==
    IF change.requiresManualMigration THEN TRUE ELSE acc.requiresManualMigration

\* the statements and the directives are pushed without their comment line
AccumulateChange_NoComment(acc, change) ==
    [sqlStatements |->
        IF Has(change, "sql") /\ Truthy(change.sql)
        THEN Append(acc.sqlStatements, change.sql)
        ELSE acc.sqlStatements,
     requiresManualMigration |-> AccumulateManual(acc, change),
     autoMigrationAnnotations |->
        IF Has(change, "autoMigrationAnnotation") /\ Truthy(change.autoMigrationAnnotation)
        THEN Append(acc.autoMigrationAnnotations, change.autoMigrationAnnotation)
        ELSE acc.autoMigrationAnnotations]

AccumulateChange(acc, change) ==
    [sqlStatements |->
        IF Has(change, "sql") /\ Truthy(change.sql)
        THEN acc.sqlStatements \o <<Str("-- ") \o change.description, change.sql>>
        ELSE acc.sqlStatements,
     requiresManualMigration |-> AccumulateManual(acc, change),
     autoMigrationAnnotations |->
        IF Has(change, "autoMigrationAnnotation") /\ Truthy(change.autoMigrationAnnotation)
        THEN acc.autoMigrationAnnotations
                \o <<Str("-- ") \o change.description, change.autoMigrationAnnotation>>
        ELSE acc.autoMigrationAnnotations]

RECURSIVE AccumulateChanges(_, _)
AccumulateChanges(acc, changes) ==
    IF Len(changes) = 0
    THEN acc
    ELSE AccumulateChanges(AccumulateChange(acc, Head(changes)), Tail(changes))

RECURSIVE AccumulateComparisons(_, _)
AccumulateComparisons(acc, comparisons) ==
    IF Len(comparisons) = 0
    THEN acc
    ELSE AccumulateComparisons(AccumulateChanges(acc, Head(comparisons).changes),
                               Tail(comparisons))

\* the verdict without the test of the annotation list
isAutoMigration_NoLengthTest(acc) == ~acc.requiresManualMigration

\* the verdict without the test of the manual flag
isAutoMigration_NoManualTest(acc) == Len(acc.autoMigrationAnnotations) > 0

isAutoMigration(acc) ==
    ~acc.requiresManualMigration /\ Len(acc.autoMigrationAnnotations) > 0

generateMigrationThrows(fromFile, toFile) ==
    IF loadSchemaThrows(fromFile) THEN TRUE
    ELSE IF loadSchemaThrows(toFile) THEN TRUE
    ELSE compareEntitiesThrows(fromFile.database.entities, toFile.database.entities)

AssembleMigration(fromFile, toFile, comparisons) ==
    LET acc == AccumulateComparisons(EmptyAccumulator, comparisons)
    IN  [fromSchema |-> [database |-> fromFile.database],
         toSchema |-> [database |-> toFile.database],
         sqlStatements |-> acc.sqlStatements,
         isAutoMigration |-> isAutoMigration(acc),
         autoMigrations |-> acc.autoMigrationAnnotations]

generateMigration(fromFile, toFile) ==
    AssembleMigration(fromFile, toFile,
        compareEntities(fromFile.database.entities, toFile.database.entities))

-----------------------------------------------------------------------------
(* Sequential Planner                                                      *)

getSchemasVersions(migration) ==
    [from |-> migration.fromSchema.database.version,
     to |-> migration.toSchema.database.version]

startsWithComment(sql) == Len(sql) > 0 /\ sql[1] = "-- "

EscapeQuotes(sql) == [k \in 1..Len(sql) |-> IF sql[k] = "\"" THEN "\\\"" ELSE sql[k]]

generateManualMigration(migration) ==
    LET IsStatement(sql) == ~startsWithComment(sql)
        statements == SelectSeq(migration.sqlStatements, IsStatement)
    IN  [kind |-> "manual",
         from |-> getSchemasVersions(migration).from,
         to |-> getSchemasVersions(migration).to,
         execSQL |-> [k \in 1..Len(statements) |-> EscapeQuotes(statements[k])]]

\* autoMigrations.filter((_, i) => i % 2) and the spec class that carries them
generateAutoMigrationSpec(migration) ==
    [kind |-> "spec",
     from |-> getSchemasVersions(migration).from,
     to |-> getSchemasVersions(migration).to,
     annotations |-> [k \in 1..(Len(migration.autoMigrations) \div 2) |->
                        migration.autoMigrations[2 * k]]]

generateSummary(migration) ==
    [from |-> getSchemasVersions(migration).from,
     to |-> getSchemasVersions(migration).to,
     isAutoMigration |-> migration.isAutoMigration,
     result |-> migration.sqlStatements \o migration.autoMigrations]

\* the test of the "Sin cambios" branch
IsNoChange(migration) ==
    Len(migration.sqlStatements) = 0 /\ ~migration.isAutoMigration

\* the test of the automatic branch
IsAutomatic(migration) ==
    migration.isAutoMigration /\ Len(migration.autoMigrations) > 0

generateDatabaseConfigThrows(migrationsList) == Len(migrationsList) = 0

IsAutoMigrationEntry(m) == IsAutomatic(m) \/ IsNoChange(m)

IsManualMigrationEntry(m) == Len(m.sqlStatements) > 0

generateDatabaseConfig(version, migrationsList) ==
    LET autoData == SelectSeq(migrationsList, IsAutoMigrationEntry)
        manualData == SelectSeq(migrationsList, IsManualMigrationEntry)
        lastEntities == migrationsList[Len(migrationsList)].toSchema.database.entities
    IN  [version |-> version,
         autoMigrations |-> [k \in 1..Len(autoData) |->
                                [needClassname |-> IsAutomatic(autoData[k]),
                                 from |-> getSchemasVersions(autoData[k]).from,
                                 to |-> getSchemasVersions(autoData[k]).to]],
         addMigrations |-> [k \in 1..Len(manualData) |-> getSchemasVersions(manualData[k])],
         entityNames |-> [k \in 1..Len(lastEntities) |-> lastEntities[k].tableName]]

-----------------------------------------------------------------------------
(* Inputs: the snapshot sequences found in the schema directory            *)

MaxFields == 2
MaxIndices == 2
MaxTables == 2
MaxSchemas == 3

\* column names in the order the snapshots list them; "foo" is a prefix of "foo_id"
ColumnNames == <<Str("foo"), <<"foo", "_id">>, Str("name"), <<"full_", "name">>>>

IndexNames == <<Str("idx_a"), <<"idx_a", "_b">>, Str("idx_c")>>

TableNames == {Str("t"), Str("u"), Str("v")}

\* the key of a field or of an index
KeyOf(x) == IF Has(x, "columnName") THEN x.columnName ELSE x.name

Position(names, n) == CHOOSE k \in 1..Len(names) : names[k] = n

\* sequences of at most n elements of S whose keys follow the order of names
OrderedLists(S, names, n) ==
    {s \in UNION {[1..m -> S] : m \in 0..n} :
        \A k \in 1..(Len(s) - 1) :
            Position(names, KeyOf(s[k])) < Position(names, KeyOf(s[k + 1]))}

Range(f) == {f[k] : k \in DOMAIN f}

OldFieldShapes == {[affinity |-> Str("TEXT"), notNull |-> FALSE]}

NewFieldShapes ==
    {[affinity |-> Str("TEXT"), notNull |-> FALSE],
     [affinity |-> Str("TEXT"), notNull |-> TRUE],
     [affinity |-> Str("INTEGER"), notNull |-> TRUE],
     [affinity |-> Str("TEXT"), notNull |-> TRUE, defaultValue |-> <<>>],
     [affinity |-> Str("TEXT"), notNull |-> FALSE, defaultValue |-> Str("x")],
     [affinity |-> Str("INTEGER"), notNull |-> TRUE, defaultValue |-> Str("5")],
     [affinity |-> Str("REAL"), notNull |-> FALSE, defaultValue |-> Str("5")],
     [affinity |-> Str("BLOB"), notNull |-> TRUE, defaultValue |-> Str("5")],
     [affinity |-> Str("integer"), notNull |-> TRUE, defaultValue |-> Str("5")]}

FieldsOf(shapes) ==
    {[columnName |-> n] @@ sh : n \in Range(ColumnNames), sh \in shapes}

\* the last one has an empty create statement
Indices ==
    {[name |-> n, unique |-> u,
      createSql |-> (IF u THEN Str("CREATE UNIQUE INDEX ") ELSE Str("CREATE INDEX ")) \o n] :
        n \in Range(IndexNames), u \in BOOLEAN}
    \cup {[name |-> Str("idx_c"), unique |-> FALSE, createSql |-> <<>>]}

IndexLists == OrderedLists(Indices, IndexNames, MaxIndices)

Entity(n, fields) ==
    [tableName |-> n, createSql |-> Str("CREATE TABLE ") \o n, fields |-> fields]

Foo == [columnName |-> Str("foo"), affinity |-> Str("TEXT"), notNull |-> FALSE]
Name == [columnName |-> Str("name"), affinity |-> Str("TEXT"), notNull |-> FALSE]

SchemaFile(v, entities) ==
    [version |-> v, status |-> "ok", database |-> [version |-> v, entities |-> entities]]

BrokenFile(v, status) == [version |-> v, status |-> status]

OldFieldLists == OrderedLists(FieldsOf(OldFieldShapes), ColumnNames, MaxFields)

NewFieldLists == OrderedLists(FieldsOf(NewFieldShapes), ColumnNames, MaxFields)

\* one table whose columns change
ColumnPairs ==
    {<<SchemaFile(1, <<Entity(Str("t"), o)>>), SchemaFile(2, <<Entity(Str("t"), n)>>)>> :
        o \in OldFieldLists, n \in NewFieldLists}

\* one table and an identical copy of it
IdenticalPairs ==
    {<<SchemaFile(1, <<Entity(Str("t"), f)>>), SchemaFile(2, <<Entity(Str("t"), f)>>)>> :
        f \in NewFieldLists}

FieldScenarios ==
    {<<<<Foo>>, <<Foo>>>>,
     <<<<Foo>>, <<Name>>>>,
     <<<<Foo, Name>>, <<Foo>>>>,
     <<<<Foo>>, <<Foo, [Name EXCEPT !.notNull = TRUE]>>>>,
     <<<<Foo>>, <<[Foo EXCEPT !.affinity = Str("INTEGER")]>>>>,
     <<<<Foo, Name>>,
       <<[Foo EXCEPT !.affinity = Str("INTEGER")],
         [Name EXCEPT !.columnName = <<"full_", "name">>]>>>>}

WithIndices(entity, hasIndices, indices) ==
    IF hasIndices THEN entity @@ [indices |-> indices] ELSE entity

\* one table whose indices change, alone or with a column change
IndexPairs ==
    {<<SchemaFile(1, <<WithIndices(Entity(Str("t"), f[1]), ho, o)>>),
       SchemaFile(2, <<WithIndices(Entity(Str("t"), f[2]), hn, n)>>)>> :
        f \in FieldScenarios,
        ho \in BOOLEAN, hn \in BOOLEAN, o \in IndexLists, n \in IndexLists}

IdxA ==
    [name |-> Str("idx_a"), unique |-> FALSE, createSql |-> Str("CREATE INDEX ") \o Str("idx_a")]

TableVariants(n) ==
    IF n = Str("t")
    THEN {[tableName |-> n, createSql |-> Str("CREATE TABLE ") \o n],
          Entity(n, <<Foo>>),
          WithIndices(Entity(n, <<Foo, Name>>), TRUE, <<IdxA>>)}
    ELSE IF n = Str("u")
    THEN {Entity(n, <<Foo>>), WithIndices(Entity(n, <<Foo, Name>>), TRUE, <<IdxA>>)}
    ELSE {Entity(n, <<Foo>>)}

Tables == UNION {TableVariants(n) : n \in TableNames}

EntityLists ==
    {s \in UNION {[1..m -> Tables] : m \in 0..MaxTables} :
        \A j, k \in 1..Len(s) : j # k => s[j].tableName # s[k].tableName}

\* several tables added, removed, kept or changed
TablePairs ==
    {<<SchemaFile(1, o), SchemaFile(2, n)>> : o \in EntityLists, n \in EntityLists}

\* what one file of a longer directory may hold
FileContents ==
    {[status |-> "missing"],
     [status |-> "malformed"],
     [status |-> "ok", entities |-> <<Entity(Str("t"), <<Foo>>)>>],
     [status |-> "ok", entities |-> <<Entity(Str("t"), <<Foo, Name>>)>>],
     [status |-> "ok", entities |-> <<Entity(Str("t"), <<Foo, [Name EXCEPT !.notNull = TRUE]>>)>>],
     [status |-> "ok", entities |-> <<Entity(Str("t"), <<Foo>>), Entity(Str("u"), <<Foo>>)>>],
     [status |-> "ok", entities |-> <<[tableName |-> Str("t"), createSql |-> Str("CREATE TABLE t")]>>]}

FileAt(v, c) ==
    IF c.status = "ok" THEN SchemaFile(v, c.entities) ELSE BrokenFile(v, c.status)

Directories ==
    UNION {{[k \in 1..m |-> FileAt(k, cs[k])] : cs \in [1..m -> FileContents]} :
            m \in 0..MaxSchemas}

-----------------------------------------------------------------------------
(* generateAllMigrations                                                   *)

Init ==
    /\ \/ schemas \in ColumnPairs
       \/ schemas \in IdenticalPairs
       \/ schemas \in IndexPairs
       \/ schemas \in TablePairs
       \/ schemas \in Directories
    /\ i = 0
    /\ pc = "run"
    /\ migrationsData = <<>>
    /\ migrations = <<>>
    /\ summary = <<>>
    /\ log = <<>>
    /\ tableComparisons = <<>>
    /\ config = <<>>

TooFewSchemas ==
    /\ pc = "run"
    /\ Len(schemas) < 2
    /\ pc' = "returned"
    /\ UNCHANGED <<schemas, i, migrationsData, migrations, summary, log,
                   tableComparisons, config>>

InLoop == pc = "run" /\ Len(schemas) >= 2 /\ i < Len(schemas) - 1

fromSchema == schemas[i + 1]
toSchema == schemas[i + 2]

\* the error of a pair leaves the loop
PairFails_Aborts ==
    /\ InLoop
    /\ generateMigrationThrows(fromSchema, toSchema)
    /\ log' = Append(log, [from |-> fromSchema.version, to |-> toSchema.version,
                           outcome |-> "error"])
    /\ tableComparisons' = <<>>
    /\ pc' = "threw"
    /\ UNCHANGED <<schemas, i, migrationsData, migrations, summary, config>>

\* the catch block
PairFails ==
    /\ InLoop
    /\ generateMigrationThrows(fromSchema, toSchema)
    /\ log' = Append(log, [from |-> fromSchema.version, to |-> toSchema.version,
                           outcome |-> "error"])
    /\ tableComparisons' = <<>>
    /\ i' = i + 1
    /\ UNCHANGED <<schemas, pc, migrationsData, migrations, summary, config>>

NoChangeBranch(migration) ==
    /\ IsNoChange(migration)
    /\ log' = Append(log, getSchemasVersions(migration) @@ [outcome |-> "Sin cambios"])
    /\ UNCHANGED <<migrations, summary>>

AutomaticBranch(migration) ==
    /\ ~IsNoChange(migration)
    /\ IsAutomatic(migration)
    /\ migrations' = Append(migrations, generateAutoMigrationSpec(migration))
    /\ log' = Append(log, getSchemasVersions(migration) @@ [outcome |-> "automatica"])
    /\ summary' = Append(summary, generateSummary(migration))

ManualBranch(migration) ==
    /\ ~IsNoChange(migration)
    /\ ~IsAutomatic(migration)
    /\ migrations' = Append(migrations, generateManualMigration(migration))
    /\ log' = Append(log, getSchemasVersions(migration) @@ [outcome |-> "manual"])
    /\ summary' = Append(summary, generateSummary(migration))

\* the try block up to the branches: generateMigration returns
PairReturns(comparisons, migration) ==
    /\ tableComparisons' = comparisons
    /\ migrationsData' = Append(migrationsData, migration)
    /\ i' = i + 1
    /\ UNCHANGED <<schemas, pc, config>>

PairNoChange ==
    /\ InLoop
    /\ ~generateMigrationThrows(fromSchema, toSchema)
    /\ LET comparisons == compareEntities(fromSchema.database.entities,
                                          toSchema.database.entities)
           migration == AssembleMigration(fromSchema, toSchema, comparisons)
       IN  PairReturns(comparisons, migration) /\ NoChangeBranch(migration)

PairAutomatic ==
    /\ InLoop
    /\ ~generateMigrationThrows(fromSchema, toSchema)
    /\ LET comparisons == compareEntities(fromSchema.database.entities,
                                          toSchema.database.entities)
           migration == AssembleMigration(fromSchema, toSchema, comparisons)
       IN  PairReturns(comparisons, migration) /\ AutomaticBranch(migration)

PairManual ==
    /\ InLoop
    /\ ~generateMigrationThrows(fromSchema, toSchema)
    /\ LET comparisons == compareEntities(fromSchema.database.entities,
                                          toSchema.database.entities)
           migration == AssembleMigration(fromSchema, toSchema, comparisons)
       IN  PairReturns(comparisons, migration) /\ ManualBranch(migration)

AfterLoop == pc = "run" /\ Len(schemas) >= 2 /\ i = Len(schemas) - 1

\* the files are written and generateDatabaseConfig returns
WriteOutputs ==
    /\ AfterLoop
    /\ ~generateDatabaseConfigThrows(migrationsData)
    /\ config' = generateDatabaseConfig(schemas[Len(schemas)].version, migrationsData)
    /\ pc' = "done"
    /\ UNCHANGED <<schemas, i, migrationsData, migrations, summary, log, tableComparisons>>

\* migrations.at(-1) is undefined: the TypeError leaves generateAllMigrations
WriteOutputsThrows ==
    /\ AfterLoop
    /\ generateDatabaseConfigThrows(migrationsData)
    /\ pc' = "threw"
    /\ UNCHANGED <<schemas, i, migrationsData, migrations, summary, log,
                   tableComparisons, config>>

Next ==
    \/ TooFewSchemas
    \/ PairFails
    \/ PairNoChange
    \/ PairAutomatic
    \/ PairManual
    \/ WriteOutputs
    \/ WriteOutputsThrows

Spec == Init /\ [][Next]_vars

-----------------------------------------------------------------------------
(* Properties.  They are stated on the pair the planner processed last:   *)
(* the snapshots schemas[i] and schemas[i + 1], the TableComparison list   *)
(* of that pair and the Migration appended for it.                         *)

FromEntities == schemas[i].database.entities

ToEntities == schemas[i + 1].database.entities

\* generateMigration returned for the last pair
LastOk == i > 0 /\ Len(log) = i /\ log[i].outcome # "error"

LastMigration == migrationsData[Len(migrationsData)]

LastOutcome == log[i].outcome

\* every change of every TableComparison
Changes(comparisons) == UNION {Range(comparisons[j].changes) : j \in 1..Len(comparisons)}

AnyManual(comparisons) == \E c \in Changes(comparisons) : c.requiresManualMigration

CarriesDirective(c) == Has(c, "autoMigrationAnnotation")

CarriesSql(c) == Has(c, "sql")

IndicesOf(e) == IF Has(e, "indices") THEN e.indices ELSE <<>>

RemoveAt(s, k) == SubSeq(s, 1, k - 1) \o SubSeq(s, k + 1, Len(s))

\* e2 is e1 with one more index, under a name e1 does not use
IsOneIndexMore(e1, e2) ==
    /\ e1.tableName = e2.tableName
    /\ Has(e1, "fields") /\ Has(e2, "fields") /\ e1.fields = e2.fields
    /\ \E k \in 1..Len(IndicesOf(e2)) :
        /\ RemoveAt(IndicesOf(e2), k) = IndicesOf(e1)
        /\ \A j \in 1..Len(IndicesOf(e1)) : IndicesOf(e1)[j].name # IndicesOf(e2)[k].name

\* the only difference between the two snapshots is one added index
OnlyOneIndexAdded ==
    /\ LastOk
    /\ Len(FromEntities) = Len(ToEntities)
    /\ \E j \in 1..Len(FromEntities) :
        /\ IsOneIndexMore(FromEntities[j], ToEntities[j])
        /\ \A k \in 1..Len(FromEntities) : k # j => FromEntities[k] = ToEntities[k]

\* C1: the verdict of every transition is isAutoEligible = (not requiresManual)
\* AND (autoDirectives non-empty), requiresManual being the OR of requiresManual
\* over every change of every TableComparison of the transition.
C1_VerdictFormula ==
    LastOk =>
        LastMigration.isAutoMigration
            = (~AnyManual(tableComparisons) /\ Len(LastMigration.autoMigrations) > 0)

\* a manual change is followed by changes that carry directives
C1_Witness ==
    /\ LastOk
    /\ Len(tableComparisons) = 1
    /\ Len(tableComparisons[1].changes) >= 2
    /\ tableComparisons[1].changes[1].requiresManualMigration
    /\ ~tableComparisons[1].changes[Len(tableComparisons[1].changes)].requiresManualMigration
    /\ Len(LastMigration.autoMigrations) > 0
    /\ ~LastMigration.isAutoMigration

\* C2 as claimed: a transition whose only change is one added index has
\* requiresManual=false, a non-empty autoDirectives list and isAutoEligible=true.
C2_AddedIndexIsAutoEligible ==
    OnlyOneIndexAdded =>
        /\ ~AnyManual(tableComparisons)
        /\ Len(LastMigration.autoMigrations) > 0
        /\ LastMigration.isAutoMigration

\* C2 amended: a transition whose only change is one added index has
\* requiresManual=false, an empty autoDirectives list (the IndexAdded change
\* carries sql only) and therefore isAutoEligible=false.
C2_AddedIndexIsNotAutoEligible ==
    OnlyOneIndexAdded =>
        /\ ~AnyManual(tableComparisons)
        /\ Len(tableComparisons) = 1
        /\ Len(tableComparisons[1].changes) = 1
        /\ tableComparisons[1].changes[1].type = "ADD_INDEX"
        /\ LastMigration.autoMigrations = <<>>
        /\ ~LastMigration.isAutoMigration

C2_Witness ==
    /\ OnlyOneIndexAdded
    /\ Len(LastMigration.sqlStatements) = 2
    /\ ~LastMigration.isAutoMigration

\* C3 as claimed: when isAutoEligible=true every change of the transition
\* carries an autoDirective and none needs a hand-authored statement.
C3_AutoEligibleAllDirectives ==
    (LastOk /\ LastMigration.isAutoMigration) =>
        \A c \in Changes(tableComparisons) :
            CarriesDirective(c) /\ ~c.requiresManualMigration

\* C3 amended: when isAutoEligible=true no change of the transition has
\* requiresManual=true and at least one change carries an autoDirective; changes
\* that carry sql only may be among them.
C3_AutoEligibleNoManual ==
    (LastOk /\ LastMigration.isAutoMigration) =>
        /\ ~AnyManual(tableComparisons)
        /\ \E c \in Changes(tableComparisons) : CarriesDirective(c)

\* an auto-eligible transition with a change that carries sql and no directive
C3_Witness ==
    /\ LastOk
    /\ LastMigration.isAutoMigration
    /\ \E c \in Changes(tableComparisons) : CarriesSql(c) /\ ~CarriesDirective(c)

\* the changes of a migration of migrationsData, from its two snapshots
ChangesOfMigration(m) ==
    compareEntities(m.fromSchema.database.entities, m.toSchema.database.entities)

\* C4: the planner treats a transition as "no change" only when the Entity
\* Differ detected zero changes, and a transition with a requiresManual change
\* is never handled as "no change" nor registered as an automatic migration.
C4_NoChangeOnlyWithoutChanges ==
    /\ LastOk =>
        /\ (LastOutcome = "Sin cambios") => (tableComparisons = <<>>)
        /\ (tableComparisons # <<>>) => (LastOutcome \in {"automatica", "manual"})
        /\ AnyManual(tableComparisons) => (LastOutcome = "manual")
    /\ pc = "done" =>
        \A k \in 1..Len(migrationsData) :
            AnyManual(ChangesOfMigration(migrationsData[k])) =>
                \A a \in 1..Len(config.autoMigrations) :
                    config.autoMigrations[a].from
                        # getSchemasVersions(migrationsData[k]).from

\* C5: a transition with zero detected changes yields sqlStatements=[],
\* autoDirectives=[] and isAutoEligible=false.
C5_ZeroChanges ==
    (LastOk /\ tableComparisons = <<>>) =>
        /\ LastMigration.sqlStatements = <<>>
        /\ LastMigration.autoMigrations = <<>>
        /\ ~LastMigration.isAutoMigration

\* two snapshots with tables, and no change between them
C5_Witness ==
    /\ LastOk
    /\ tableComparisons = <<>>
    /\ Len(FromEntities) > 0
    /\ Len(ToEntities) > 0
    /\ LastMigration.sqlStatements = <<>>

-----------------------------------------------------------------------------
(* Properties of the differs, stated on the tables of the last pair        *)

Count(S) == Cardinality(S)

StartsWith(s, prefix) == Len(s) >= Len(prefix) /\ SubSeq(s, 1, Len(prefix)) = prefix

\* pairs <<old table, new table>> of the tables present in both snapshots
SharedTables ==
    {<<FromEntities[j], ToEntities[k]>> : <<j, k>> \in
        {<<j, k>> \in (1..Len(FromEntities)) \X (1..Len(ToEntities)) :
            FromEntities[j].tableName = ToEntities[k].tableName}}

\* the changes reported for a table: none when no TableComparison names it
ChangesOf(t) ==
    LET at == {j \in 1..Len(tableComparisons) : tableComparisons[j].tableName = t}
    IN  IF at = {} THEN <<>> ELSE tableComparisons[CHOOSE j \in at : TRUE].changes

OfType(changes, type) == {k \in 1..Len(changes) : changes[k].type = type}

ColumnsOf(e) == {e.fields[k].columnName : k \in 1..Len(e.fields)}

IndexNamesOf(e) == {IndicesOf(e)[k].name : k \in 1..Len(IndicesOf(e))}

AddedOnly(o, n) == {f \in Range(n.fields) : f.columnName \notin ColumnsOf(o)}

RemovedOnly(o, n) == {f \in Range(o.fields) : f.columnName \notin ColumnsOf(n)}

Retyped(o, n) ==
    {f \in Range(o.fields) :
        \E g \in Range(n.fields) : g.columnName = f.columnName /\ g.affinity # f.affinity}

\* exactly one column only in old, exactly one only in new, of identical affinity
RenameExpected(o, n) ==
    /\ Count(AddedOnly(o, n)) = 1
    /\ Count(RemovedOnly(o, n)) = 1
    /\ \A a \in AddedOnly(o, n) : \A r \in RemovedOnly(o, n) : a.affinity = r.affinity

ColumnAddedFor(changes, t, column) ==
    {k \in OfType(changes, "ADD_COLUMN") :
        StartsWith(changes[k].description,
                   Str("Nueva columna: ") \o t \o Str(".") \o column \o Str(" ("))}

ColumnRemovedFor(changes, t, column) ==
    {k \in OfType(changes, "REMOVE_COLUMN") :
        changes[k].description = Str("Columna eliminada: ") \o t \o Str(".") \o column}

UniqueNames(entities) ==
    /\ \A j, k \in 1..Len(entities) :
        j # k => entities[j].tableName # entities[k].tableName
    /\ \A j \in 1..Len(entities) :
        /\ Has(entities[j], "fields")
        /\ \A x, y \in 1..Len(entities[j].fields) :
            x # y => entities[j].fields[x].columnName # entities[j].fields[y].columnName
        /\ \A x, y \in 1..Len(IndicesOf(entities[j])) :
            x # y => IndicesOf(entities[j])[x].name # IndicesOf(entities[j])[y].name

\* the last pair is a snapshot and an identical copy of it
IdenticalCopy ==
    /\ i > 0
    /\ Len(log) = i
    /\ schemas[i].status = "ok"
    /\ schemas[i + 1].status = "ok"
    /\ FromEntities = ToEntities
    /\ UniqueNames(FromEntities)

\* C6: diffing a snapshot with unique table, column and index names against an
\* identical copy yields zero changes: the TableComparison list is empty, and
\* for every table the Field Differ and the Index Differ return an empty list.
C6_IdenticalCopyNoChanges ==
    IdenticalCopy =>
        /\ LastOk
        /\ tableComparisons = <<>>
        /\ \A e \in Range(FromEntities) :
            /\ compareFields(e, e) = <<>>
            /\ compareIndices(e, e) = <<>>

\* a copied snapshot with a table of two columns and an index
C6_Witness ==
    /\ IdenticalCopy
    /\ pc = "done"
    /\ \E e \in Range(FromEntities) : Len(e.fields) = 2 /\ Len(IndicesOf(e)) = 1
    /\ tableComparisons = <<>>

\* C7: every column only in the new table, when the rename heuristic does not
\* apply, produces exactly one ColumnAdded change; its requiresManual is true
\* exactly when the column is not-null without default value, and its sql is
\* absent exactly when requiresManual is true.
C7_ColumnAdded ==
    LastOk =>
        \A p \in SharedTables :
            ~RenameExpected(p[1], p[2]) =>
                \A f \in AddedOnly(p[1], p[2]) :
                    LET cs == ChangesOf(p[1].tableName)
                        at == ColumnAddedFor(cs, p[1].tableName, f.columnName)
                    IN  /\ Count(at) = 1
                        /\ \A k \in at :
                            /\ cs[k].requiresManualMigration
                                = (f.notNull /\ ~Has(f, "defaultValue"))
                            /\ (~CarriesSql(cs[k])) = cs[k].requiresManualMigration

\* two added columns: one not-null without default, one nullable without default
C7_Witness ==
    /\ LastOk
    /\ \E p \in SharedTables :
        /\ ~RenameExpected(p[1], p[2])
        /\ \E f, g \in AddedOnly(p[1], p[2]) :
            /\ f.notNull /\ ~Has(f, "defaultValue")
            /\ ~g.notNull /\ ~Has(g, "defaultValue")
        /\ Count(OfType(ChangesOf(p[1].tableName), "ADD_COLUMN")) = 2

\* affinity names are compared without regard to case
NumericAffinities == {Str("INTEGER"), Str("REAL"), Str("integer"), Str("real")}

FormattedDefault(f) ==
    IF f.affinity \in NumericAffinities
    THEN f.defaultValue
    ELSE Str("'") \o f.defaultValue \o Str("'")

AddColumnStatement(t, f) ==
    Str("ALTER TABLE ") \o t \o Str(" ADD COLUMN ") \o f.columnName \o Str(" ") \o f.affinity
        \o (IF f.notNull THEN Str(" NOT NULL") ELSE <<>>)
        \o (IF Has(f, "defaultValue") THEN Str(" DEFAULT ") \o FormattedDefault(f) ELSE <<>>)

\* C8: the sql of a ColumnAdded change is 'ALTER TABLE <table> ADD COLUMN <col>
\* <affinity>', then ' NOT NULL' exactly when the column is not-null, then
\* ' DEFAULT <formatted default>' exactly when the column has a default value,
\* whatever the literal; the literal is unchanged for INTEGER and REAL and in
\* single quotes for every other affinity.
C8_AddColumnSql ==
    LastOk =>
        \A p \in SharedTables :
            \A f \in AddedOnly(p[1], p[2]) :
                LET cs == ChangesOf(p[1].tableName)
                IN  \A k \in ColumnAddedFor(cs, p[1].tableName, f.columnName) :
                        CarriesSql(cs[k]) => cs[k].sql = AddColumnStatement(p[1].tableName, f)

\* C9: with exactly one column only in old and one only in new, of identical
\* affinity, the table's changes hold exactly one ColumnRenamed change
\* (requiresManual=false, no sql, a directive naming the old and the new
\* column), no ColumnAdded or ColumnRemoved change for the two columns, and
\* every type change and index change of the table.
C9_Rename ==
    LastOk =>
        \A p \in SharedTables :
            RenameExpected(p[1], p[2]) =>
                LET cs == ChangesOf(p[1].tableName)
                    a == CHOOSE f \in AddedOnly(p[1], p[2]) : TRUE
                    r == CHOOSE f \in RemovedOnly(p[1], p[2]) : TRUE
                IN  /\ Count(OfType(cs, "RENAME_COLUMN")) = 1
                    /\ \A k \in OfType(cs, "RENAME_COLUMN") :
                        /\ ~cs[k].requiresManualMigration
                        /\ ~CarriesSql(cs[k])
                        /\ CarriesDirective(cs[k])
                        /\ includes(cs[k].autoMigrationAnnotation,
                                    r.columnName \o Str("\", toColumnName = \"")
                                        \o a.columnName \o Str("\")"))
                    /\ OfType(cs, "ADD_COLUMN") = {}
                    /\ OfType(cs, "REMOVE_COLUMN") = {}
                    /\ Count(OfType(cs, "CHANGE_TYPE")) = Count(Retyped(p[1], p[2]))
                    /\ Count(OfType(cs, "ADD_INDEX"))
                        = Count(IndexNamesOf(p[2]) \ IndexNamesOf(p[1]))
                    /\ Count(OfType(cs, "REMOVE_INDEX"))
                        = Count(IndexNamesOf(p[1]) \ IndexNamesOf(p[2]))
                    /\ Len(cs) = 1 + Count(Retyped(p[1], p[2]))
                                   + Count(IndexNamesOf(p[2]) \ IndexNamesOf(p[1]))
                                   + Count(IndexNamesOf(p[1]) \ IndexNamesOf(p[2]))

\* a rename next to a type change, the new column not-null without default
C9_Witness ==
    /\ LastOk
    /\ \E p \in SharedTables :
        /\ RenameExpected(p[1], p[2])
        /\ Retyped(p[1], p[2]) # {}
        /\ \A f \in AddedOnly(p[1], p[2]) : f.notNull /\ ~Has(f, "defaultValue")
        /\ Len(ChangesOf(p[1].tableName)) = 2

\* C10: a ColumnRenamed change is emitted only with exactly one removed and
\* exactly one added column of identical affinity; in every other case every
\* added column keeps its ColumnAdded change and every removed column its
\* ColumnRemoved change.
C10_RenameOnlyOneToOne ==
    LastOk =>
        \A p \in SharedTables :
            LET t == p[1].tableName
                cs == ChangesOf(t)
            IN  /\ OfType(cs, "RENAME_COLUMN") # {} => RenameExpected(p[1], p[2])
                /\ ~RenameExpected(p[1], p[2]) =>
                    /\ OfType(cs, "RENAME_COLUMN") = {}
                    /\ \A f \in AddedOnly(p[1], p[2]) :
                        Count(ColumnAddedFor(cs, t, f.columnName)) = 1
                    /\ \A f \in RemovedOnly(p[1], p[2]) :
                        Count(ColumnRemovedFor(cs, t, f.columnName)) = 1
                    /\ Count(OfType(cs, "ADD_COLUMN")) = Count(AddedOnly(p[1], p[2]))
                    /\ Count(OfType(cs, "REMOVE_COLUMN")) = Count(RemovedOnly(p[1], p[2]))

\* two columns removed and two added, all TEXT: four separate changes
C10_Witness ==
    /\ LastOk
    /\ \E p \in SharedTables :
        /\ Count(AddedOnly(p[1], p[2])) = 2
        /\ Count(RemovedOnly(p[1], p[2])) = 2
        /\ \A f \in AddedOnly(p[1], p[2]) \cup RemovedOnly(p[1], p[2]) :
            f.affinity = Str("TEXT")
        /\ Len(ChangesOf(p[1].tableName)) = 4
        /\ OfType(ChangesOf(p[1].tableName), "RENAME_COLUMN") = {}

-----------------------------------------------------------------------------
(* Properties of the Entity Differ, stated on the tables of the last pair  *)

\* the kind of the data model that a type tag of TableChange stands for
Kind(c) ==
    CASE c.type = "ADD_COLUMN" -> "ColumnAdded"
      [] c.type = "REMOVE_COLUMN" -> "ColumnRemoved"
      [] c.type = "RENAME_COLUMN" -> "ColumnRenamed"
      [] c.type = "CHANGE_TYPE" -> "ColumnTypeChanged"
      [] c.type = "ADD_INDEX" -> "IndexAdded"
      [] c.type = "REMOVE_INDEX" -> "IndexRemoved"
      [] OTHER -> c.type

TableNamesOf(entities) == {entities[j].tableName : j \in 1..Len(entities)}

\* the tables present only in the new snapshot, only in the old snapshot
OnlyInNew == {e \in Range(ToEntities) : e.tableName \notin TableNamesOf(FromEntities)}

OnlyInOld == {e \in Range(FromEntities) : e.tableName \notin TableNamesOf(ToEntities)}

ComparisonsOf(t) == {j \in 1..Len(tableComparisons) : tableComparisons[j].tableName = t}

\* the content of the TableAdded change of table e, its kind left aside
IsTableAddedContent(c, e) ==
    /\ CarriesSql(c)
    /\ c.sql = e.createSql
    /\ c.requiresManualMigration
    /\ ~CarriesDirective(c)

\* C11: every table present only in the new snapshot has exactly one
\* TableComparison holding exactly one Change, of kind TableAdded, whose sql is
\* the table's create statement, with requiresManual=true and no autoDirective;
\* a transition that adds a table is never auto-eligible.
C11_TableAdded ==
    LastOk =>
        \A e \in OnlyInNew :
            /\ Count(ComparisonsOf(e.tableName)) = 1
            /\ \A j \in ComparisonsOf(e.tableName) :
                /\ Len(tableComparisons[j].changes) = 1
                /\ Kind(tableComparisons[j].changes[1]) = "TableAdded"
                /\ IsTableAddedContent(tableComparisons[j].changes[1], e)
            /\ ~LastMigration.isAutoMigration

\* the content of the TableRemoved change of table e, its kind left aside
IsTableRemovedContent(c, e) ==
    /\ CarriesSql(c)
    /\ c.sql = Str("DROP TABLE ") \o e.tableName
    /\ ~c.requiresManualMigration
    /\ CarriesDirective(c)
    /\ c.autoMigrationAnnotation
        = Str("@DeleteTable(tableName = \"") \o e.tableName \o Str("\")")

\* C12: every table present only in the old snapshot has exactly one
\* TableComparison holding exactly one Change, of kind TableRemoved, whose sql
\* is a drop statement for the table, with requiresManual=false and a
\* delete-table directive that names the table.
C12_TableRemoved ==
    LastOk =>
        \A e \in OnlyInOld :
            /\ Count(ComparisonsOf(e.tableName)) = 1
            /\ \A j \in ComparisonsOf(e.tableName) :
                /\ Len(tableComparisons[j].changes) = 1
                /\ Kind(tableComparisons[j].changes[1]) = "TableRemoved"
                /\ IsTableRemovedContent(tableComparisons[j].changes[1], e)

-----------------------------------------------------------------------------
(* Properties of the Field Differ and of the Index Differ                  *)

\* the columns of o that n also has, each with the column of n
SharedColumns(o, n) ==
    {<<f, g>> \in Range(o.fields) \X Range(n.fields) : f.columnName = g.columnName}

TypeChangedFor(changes, t, column) ==
    {k \in OfType(changes, "CHANGE_TYPE") :
        StartsWith(changes[k].description,
                   Str("Cambio de tipo: ") \o t \o Str(".") \o column \o Str(" ("))}

\* C13: in a table present in both snapshots every column of both tables whose
\* affinity differs produces exactly one ColumnTypeChanged change with
\* requiresManual=true, no sql and no autoDirective, a column of equal affinity
\* produces none, and a transition with a type-changed column is not
\* auto-eligible.
C13_TypeChanged ==
    LastOk =>
        \A p \in SharedTables :
            LET t == p[1].tableName
                cs == ChangesOf(t)
            IN  /\ \A fg \in SharedColumns(p[1], p[2]) :
                    LET at == TypeChangedFor(cs, t, fg[1].columnName)
                    IN  IF fg[1].affinity # fg[2].affinity
                        THEN /\ Count(at) = 1
                             /\ \A k \in at :
                                 /\ cs[k].requiresManualMigration
                                 /\ ~CarriesSql(cs[k])
                                 /\ ~CarriesDirective(cs[k])
                             /\ ~LastMigration.isAutoMigration
                        ELSE at = {}
                /\ Count(OfType(cs, "CHANGE_TYPE")) = Count(Retyped(p[1], p[2]))

\* a type-changed column next to a removed column, whose directive alone would
\* make the transition auto-eligible
C13_Witness ==
    /\ LastOk
    /\ \E p \in SharedTables :
        /\ Retyped(p[1], p[2]) # {}
        /\ RemovedOnly(p[1], p[2]) # {}
        /\ Count(OfType(ChangesOf(p[1].tableName), "CHANGE_TYPE")) = 1
    /\ Len(LastMigration.autoMigrations) > 0
    /\ ~LastMigration.isAutoMigration

\* C14: every column only in the old table, when the rename heuristic does not
\* apply, produces exactly one ColumnRemoved change with requiresManual=false,
\* no sql and a delete-column directive that names the table and the column.
C14_ColumnRemoved ==
    LastOk =>
        \A p \in SharedTables :
            ~RenameExpected(p[1], p[2]) =>
                \A f \in RemovedOnly(p[1], p[2]) :
                    LET t == p[1].tableName
                        cs == ChangesOf(t)
                        at == ColumnRemovedFor(cs, t, f.columnName)
                    IN  /\ Count(at) = 1
                        /\ \A k \in at :
                            /\ ~cs[k].requiresManualMigration
                            /\ ~CarriesSql(cs[k])
                            /\ CarriesDirective(cs[k])
                            /\ cs[k].autoMigrationAnnotation
                                = Str("@DeleteColumn(tableName = \"") \o t
                                    \o Str("\", columnName = \"") \o f.columnName
                                    \o Str("\")")

\* one column removed next to one added column of another affinity: no rename
C14_Witness ==
    /\ LastOk
    /\ \E p \in SharedTables :
        /\ Count(RemovedOnly(p[1], p[2])) = 1
        /\ Count(AddedOnly(p[1], p[2])) = 1
        /\ ~RenameExpected(p[1], p[2])
        /\ Count(OfType(ChangesOf(p[1].tableName), "REMOVE_COLUMN")) = 1
        /\ OfType(ChangesOf(p[1].tableName), "RENAME_COLUMN") = {}

IndexAddedFor(changes, name) ==
    {k \in OfType(changes, "ADD_INDEX") :
        changes[k].description = Str("Nuevo indice: ") \o name}

IndexRemovedFor(changes, name) ==
    {k \in OfType(changes, "REMOVE_INDEX") :
        changes[k].description = Str("Indice eliminado: ") \o name}

IsSuffix(s, whole) ==
    Len(s) <= Len(whole) /\ SubSeq(whole, Len(whole) - Len(s) + 1, Len(whole)) = s

\* an index of o and an index of n have the same name and differ otherwise
Redefined(o, n) ==
    \E x \in Range(IndicesOf(o)) : \E y \in Range(IndicesOf(n)) :
        x.name = y.name /\ x # y

\* C15: for a table present in both snapshots, an absent index list counting
\* as empty, compareIndices returns exactly one IndexAdded change (sql = the
\* index's create statement, requiresManual=false) per index name only in new,
\* exactly one IndexRemoved change (sql = a drop statement for the name,
\* requiresManual=false) per name only in old, and nothing else: no change for a
\* name of both tables, whatever the two definitions.  These changes end the
\* change list of the table.
C15_IndexChangesByName ==
    LastOk =>
        \A p \in SharedTables :
            LET cs == compareIndices(p[1], p[2])
                added == IndexNamesOf(p[2]) \ IndexNamesOf(p[1])
                removed == IndexNamesOf(p[1]) \ IndexNamesOf(p[2])
            IN  /\ \A x \in Range(IndicesOf(p[2])) :
                    x.name \in added =>
                        /\ Count(IndexAddedFor(cs, x.name)) = 1
                        /\ \A k \in IndexAddedFor(cs, x.name) :
                            /\ CarriesSql(cs[k])
                            /\ cs[k].sql = x.createSql
                            /\ ~cs[k].requiresManualMigration
                /\ \A name \in removed :
                        /\ Count(IndexRemovedFor(cs, name)) = 1
                        /\ \A k \in IndexRemovedFor(cs, name) :
                            /\ CarriesSql(cs[k])
                            /\ cs[k].sql = Str("DROP INDEX ") \o name
                            /\ ~cs[k].requiresManualMigration
                /\ Len(cs) = Count(added) + Count(removed)
                /\ IsSuffix(cs, ChangesOf(p[1].tableName))

\* an index redefined under its name, next to an added and a removed index
C15_Witness ==
    /\ LastOk
    /\ \E p \in SharedTables :
        /\ Redefined(p[1], p[2])
        /\ IndexNamesOf(p[2]) \ IndexNamesOf(p[1]) # {}
        /\ IndexNamesOf(p[1]) \ IndexNamesOf(p[2]) # {}
        /\ Len(compareIndices(p[1], p[2])) = 2
        /\ IsSuffix(compareIndices(p[1], p[2]), tableComparisons[1].changes)

-----------------------------------------------------------------------------
(* Discovery order                                                         *)

PositionIn(entities, t) == CHOOSE j \in 1..Len(entities) : entities[j].tableName = t

\* 1: table only in new, 2: table only in old, 3: table of both snapshots
TableSection(t) ==
    IF t \notin TableNamesOf(FromEntities) THEN 1
    ELSE IF t \notin TableNamesOf(ToEntities) THEN 2
    ELSE 3

\* the position of a table in the snapshot that fixes the order of its section
TablePosition(t) ==
    IF TableSection(t) = 1 THEN PositionIn(ToEntities, t) ELSE PositionIn(FromEntities, t)

\* the place of a change in the list of a table present in both snapshots
ChangeSection(c) ==
    CASE c.type = "ADD_COLUMN" -> 1
      [] c.type = "REMOVE_COLUMN" -> 2
      [] c.type = "CHANGE_TYPE" -> 3
      [] c.type = "RENAME_COLUMN" -> 4
      [] OTHER -> 5

\* C16: the TableComparisons come as added tables in new-snapshot order, then
\* removed tables in old-snapshot order, then tables of both snapshots in
\* old-snapshot order; the changes of a table of both snapshots come as added
\* columns, removed columns, type-changed columns, the rename, index changes.
C16_DiscoveryOrder ==
    LastOk =>
        /\ \A j, k \in 1..Len(tableComparisons) :
            j < k =>
                LET a == tableComparisons[j].tableName
                    b == tableComparisons[k].tableName
                IN  \/ TableSection(a) < TableSection(b)
                    \/ /\ TableSection(a) = TableSection(b)
                       /\ TablePosition(a) < TablePosition(b)
        /\ \A j \in 1..Len(tableComparisons) :
            TableSection(tableComparisons[j].tableName) = 3 =>
                LET cs == tableComparisons[j].changes
                IN  \A x, y \in 1..Len(cs) :
                        x < y => ChangeSection(cs[x]) <= ChangeSection(cs[y])

\* an added, a removed and a changed table, the removed one listed first in the
\* old snapshot and the changed one with a column change and an index change
C16_Witness ==
    /\ LastOk
    /\ Len(tableComparisons) = 3
    /\ TableSection(tableComparisons[1].tableName) = 1
    /\ TableSection(tableComparisons[2].tableName) = 2
    /\ TableSection(tableComparisons[3].tableName) = 3
    /\ PositionIn(FromEntities, tableComparisons[2].tableName) = 1
    /\ PositionIn(ToEntities, tableComparisons[1].tableName) = 2
    /\ Len(tableComparisons[3].changes) = 2
    /\ ChangeSection(tableComparisons[3].changes[1]) = 1
    /\ ChangeSection(tableComparisons[3].changes[2]) = 5

-----------------------------------------------------------------------------
(* Properties of the Migration Assembler                                   *)

\* the changes of every TableComparison, in discovery order
RECURSIVE ChangesInOrder(_)
ChangesInOrder(comparisons) ==
    IF Len(comparisons) = 0
    THEN <<>>
    ELSE Head(comparisons).changes \o ChangesInOrder(Tail(comparisons))

\* populated: present and not the empty text
HasPopulatedSql(c) == CarriesSql(c) /\ c.sql # <<>>

HasPopulatedDirective(c) == CarriesDirective(c) /\ c.autoMigrationAnnotation # <<>>

CommentLine(c) == Str("-- ") \o c.description

\* C17: sqlStatements is, in discovery order, the comment line of the
\* description followed by the sql of every change with a populated sql, and
\* nothing else; autoDirectives is the same for the changes with a populated
\* autoDirective; both lists have even length.
C17_AssembledLists ==
    LastOk =>
        LET flat == ChangesInOrder(tableComparisons)
            withSql == SelectSeq(flat, HasPopulatedSql)
            withDirective == SelectSeq(flat, HasPopulatedDirective)
            sql == LastMigration.sqlStatements
            directives == LastMigration.autoMigrations
        IN  /\ Len(sql) = 2 * Len(withSql)
            /\ \A k \in 1..Len(withSql) :
                /\ sql[2 * k - 1] = CommentLine(withSql[k])
                /\ sql[2 * k] = withSql[k].sql
            /\ Len(directives) = 2 * Len(withDirective)
            /\ \A k \in 1..Len(withDirective) :
                /\ directives[2 * k - 1] = CommentLine(withDirective[k])
                /\ directives[2 * k] = withDirective[k].autoMigrationAnnotation

\* two TableComparisons whose changes carry sql only, a directive only, and both
C17_Witness ==
    /\ LastOk
    /\ Len(tableComparisons) = 2
    /\ Len(LastMigration.sqlStatements) = 4
    /\ Len(LastMigration.autoMigrations) = 4
    /\ \E c \in Changes(tableComparisons) : HasPopulatedSql(c) /\ ~CarriesDirective(c)
    /\ \E c \in Changes(tableComparisons) : ~CarriesSql(c) /\ HasPopulatedDirective(c)
    /\ \E c \in Changes(tableComparisons) : HasPopulatedSql(c) /\ HasPopulatedDirective(c)

-----------------------------------------------------------------------------
(* Properties of the Sequential Planner                                    *)

\* the pairs among the first k that produced a Migration
SuccessCount(k) == Count({j \in 1..k : log[j].outcome # "error"})

\* C18: the planner attempts the adjacent pairs once each, in ascending order
\* (the k-th report is that of snapshots k and k+1); a pair is reported as
\* failed exactly when generateMigration fails on it, the loop ends only after
\* the last pair, and the Migration kept for a successful pair is the one its
\* two snapshots give, whatever happened to the other pairs.
C18_FaultIsolation ==
    /\ Len(log) = i
    /\ i <= Len(schemas) - 1 \/ i = 0
    /\ \A k \in 1..Len(log) :
        /\ log[k].from = schemas[k].version
        /\ log[k].to = schemas[k + 1].version
        /\ (log[k].outcome = "error") = generateMigrationThrows(schemas[k], schemas[k + 1])
        /\ log[k].outcome # "error" =>
            migrationsData[SuccessCount(k)] = generateMigration(schemas[k], schemas[k + 1])
    /\ Len(migrationsData) = SuccessCount(Len(log))
    /\ (pc \in {"done", "threw"}) => (Len(schemas) >= 2 /\ i = Len(schemas) - 1)
    /\ (pc = "returned") => (Len(schemas) < 2 /\ i = 0)

\* the first pair failed and the second pair gave a migration with changes
C18_Witness ==
    /\ pc = "done"
    /\ Len(schemas) = 3
    /\ Len(log) = 2
    /\ log[1].outcome = "error"
    /\ log[2].outcome \in {"automatica", "manual"}
    /\ Len(migrationsData) = 1
    /\ migrationsData[1] = generateMigration(schemas[2], schemas[3])

\* both snapshots of the last pair were loaded
LastLoaded ==
    /\ i > 0
    /\ Len(log) = i
    /\ schemas[i].status = "ok"
    /\ schemas[i + 1].status = "ok"

LacksFields(entities) == \E e \in Range(entities) : ~Has(e, "fields")

\* the last pair failed: an error is reported, no Migration and no
\* TableComparison is kept for it
LastFailedAtomically ==
    /\ log[i].outcome = "error"
    /\ tableComparisons = <<>>
    /\ \A k \in 1..Len(migrationsData) :
        getSchemasVersions(migrationsData[k]).from # schemas[i].version

\* C19: a pair in which a table of either snapshot has no fields list fails:
\* the error reaches the caller of generateMigration, and no Migration and no
\* TableComparison list is produced for the pair, whether the table is added,
\* removed or present in both snapshots.
C19_MissingFieldsFails ==
    (LastLoaded /\ (LacksFields(FromEntities) \/ LacksFields(ToEntities))) =>
        LastFailedAtomically

\* the entries of the generated database config for the transition from v
AutoEntries(v) ==
    {a \in 1..Len(config.autoMigrations) : config.autoMigrations[a].from = v}

ManualEntries(v) ==
    {a \in 1..Len(config.addMigrations) : config.addMigrations[a].from = v}

\* the code emitted into the migrations file for the transition from v
Emitted(kind, v) == \E m \in Range(migrations) : m.kind = kind /\ m.from = v

\* every MIGRATION_<from>_<to> of addMigrations has its definition
ManualReferencesDefined ==
    \A a \in 1..Len(config.addMigrations) :
        Emitted("manual", config.addMigrations[a].from)

\* every Migration<from>To<to>Spec of autoMigrations has its class
SpecReferencesDefined ==
    \A a \in 1..Len(config.autoMigrations) :
        config.autoMigrations[a].needClassname =>
            Emitted("spec", config.autoMigrations[a].from)

\* C20: in the generated database config every transition with a Migration and
\* at least one change is registered in exactly one way, as the automatic
\* migration or as the manual MIGRATION_<from>_<to>, the way of the branch that
\* emitted its code; addMigrations names a MIGRATION_<from>_<to> only if its
\* definition was emitted, autoMigrations names a spec class only if it was.
C20_RegisteredOnce ==
    pc = "done" =>
        /\ \A k \in 1..Len(migrationsData) :
            LET v == getSchemasVersions(migrationsData[k]).from
            IN  ChangesOfMigration(migrationsData[k]) # <<>> =>
                    /\ Count(AutoEntries(v)) + Count(ManualEntries(v)) = 1
                    /\ Emitted("manual", v) => Count(ManualEntries(v)) = 1
                    /\ Emitted("spec", v) => Count(AutoEntries(v)) = 1
        /\ ManualReferencesDefined
        /\ SpecReferencesDefined

\* every pair of the directory was attempted and failed
EveryPairFailed ==
    /\ Len(log) = Len(schemas) - 1
    /\ \A k \in 1..Len(log) : log[k].outcome = "error"

\* C21: with two snapshots or more generateAllMigrations never raises: once the
\* pairs are attempted the final output step (changelog, migrations file and
\* database config) completes, whichever pairs failed, every pair or the last
\* pair included.
C21_OutputStepCompletes ==
    Len(schemas) >= 2 =>
        /\ pc # "threw"
        /\ (i = Len(schemas) - 1 /\ pc # "run") => (pc = "done" /\ config # <<>>)

====
